---------------------------- MODULE Spec2Model ----------------------------
(***************************************************************************)
(* A model of src/jira_client.py: the JiraClient gateway (one HTTP request *)
(* per step, answered by a black-box Jira server) and the story-point      *)
(* aggregation loop of story_points_by_jql.                                *)
(*                                                                         *)
(* Strings are sequences of one-character strings, so that strip() and     *)
(* lower() do real work.  Python's None is the sentinel None below.        *)
(***************************************************************************)
EXTENDS Integers, Sequences, FiniteSets, TLC

(***************************************************************************)
(* Bounds of the model (not program constants).                            *)
(***************************************************************************)
\* Longest page whose issues the server picks freely; also the largest
\* "small" cap (max_results) a caller passes.  Longer pages are uniform.
MaxDetail == 3
\* How many issues more than the requested maxResults the server may return.
MaxOver == 1

(***************************************************************************)
(* Program constants.                                                      *)
(***************************************************************************)
\* batch_size = min(remaining, 100)
PageLimit == 100
\* _request raises when response.status_code >= 400
ErrorStatus == 400
\* _find_account_id_by_query asks for maxResults 2
UserSearchLimit == 2

(***************************************************************************)
(* Python values.                                                          *)
(***************************************************************************)
None == <<"None">>

\* bool(x) of an Optional[str]: None and "" are falsy
Truthy(s) == s # None /\ s # <<>>

Whitespace == {" ", "\t"}

RECURSIVE LStrip(_)
LStrip(s) ==
    IF s = <<>> THEN s
    ELSE IF Head(s) \in Whitespace THEN LStrip(Tail(s)) ELSE s

RECURSIVE RStrip(_)
RStrip(s) ==
    IF s = <<>> THEN s
    ELSE IF s[Len(s)] \in Whitespace THEN RStrip(SubSeq(s, 1, Len(s) - 1)) ELSE s

\* str.strip()
Strip(s) == RStrip(LStrip(s))

UpperCase == <<"A","B","C","D","E","F","G","H","I","J","K","L","M",
               "N","O","P","Q","R","S","T","U","V","W","X","Y","Z">>
LowerCase == <<"a","b","c","d","e","f","g","h","i","j","k","l","m",
               "n","o","p","q","r","s","t","u","v","w","x","y","z">>

LowerChar(c) ==
    IF \E i \in 1..Len(UpperCase) : UpperCase[i] = c
    THEN LowerCase[CHOOSE i \in 1..Len(UpperCase) : UpperCase[i] = c]
    ELSE c

\* str.lower()
Lower(s) == [i \in 1..Len(s) |-> LowerChar(s[i])]

\* a slip: the test without its strip()
BlankEmptyOnly(s) == ~Truthy(s)

\* "not x or not x.strip()" of the argument checks
Blank(s) == ~Truthy(s) \/ ~Truthy(Strip(s))

Min(a, b) == IF a < b THEN a ELSE b

(***************************************************************************)
(* Python floats (IEEE-754 binary64) on the non-negative integers          *)
(* h * 2^53 + l with l far below 2^53, written [h |-> h, l |-> l].  All    *)
(* integers below 2^53 are doubles; from 2^53 * 2^k up to 2^53 * 2^(k+1)   *)
(* the doubles are the multiples of 2^(k+1).                               *)
(***************************************************************************)
Num(h, l) == [h |-> h, l |-> l]
Zero == Num(0, 0)

RECURSIVE Ulp(_)
\* spacing of the doubles in the binade of h * 2^53 (h >= 1)
Ulp(h) == IF h <= 1 THEN 2 ELSE 2 * Ulp(h \div 2)

\* round to nearest double, ties to even mantissa
RoundToDouble(x) ==
    IF x.h = 0 THEN x
    ELSE LET u  == Ulp(x.h)
             r  == x.l % u
             lo == x.l - r
         IN  IF 2 * r < u THEN Num(x.h, lo)
             ELSE IF 2 * r > u THEN Num(x.h, lo + u)
             ELSE IF lo % (2 * u) = 0 THEN Num(x.h, lo) ELSE Num(x.h, lo + u)

\* exact (real-number) addition
ExactAdd(x, y) == Num(x.h + y.h, x.l + y.l)

\* float + float
FloatAdd(x, y) == RoundToDouble(ExactAdd(x, y))

\* float(n) of a Python int
ToFloat(n) == RoundToDouble(n)

\* a > b
Greater(a, b) == a.h > b.h \/ (a.h = b.h /\ a.l > b.l)


(***************************************************************************)
(* JSON the server sends.                                                  *)
(***************************************************************************)
\* a value of the story-points field: null, a string, or a number (an
\* integer, as the pair of Num)
JNull == [t |-> "null", n |-> Zero]
JStr == [t |-> "str", n |-> Zero]
JNum(n) == [t |-> "num", n |-> n]

One == Num(0, 1)
Two == Num(0, 2)
\* 2^53: the first integer whose successor is not a double
Big == Num(1, 0)

\* fields.get("assignee"): absent/null, or an object with or without accountId
NoAssignee == [present |-> FALSE, accountId |-> None]
AnonAssignee == [present |-> TRUE, accountId |-> None]
Assignee(id) == [present |-> TRUE, accountId |-> id]

A1 == <<"a", "1">>
A2 == <<"a", "2">>
A3 == <<"a", "3">>

\* the (assignee, story points) shapes of the issues the server returns
IssueShapes ==
    { [assignee |-> NoAssignee,   story_points |-> JStr],
      [assignee |-> AnonAssignee, story_points |-> JNum(Two)],
      [assignee |-> Assignee(A1), story_points |-> JNum(One)],
      [assignee |-> Assignee(A1), story_points |-> JNum(Big)],
      [assignee |-> Assignee(A2), story_points |-> JNum(Two)],
      [assignee |-> Assignee(A2), story_points |-> JNull],
      [assignee |-> Assignee(A3), story_points |-> JNum(One)] }

\* the shapes of the issues of a page longer than MaxDetail
LongPageShapes ==
    { [assignee |-> NoAssignee,   story_points |-> JStr],
      [assignee |-> Assignee(A1), story_points |-> JNum(One)],
      [assignee |-> Assignee(A2), story_points |-> JNum(Two)] }

\* the issue of shape x found at offset k of the result set; its key is k
IssueAt(k, x) == [key |-> k, assignee |-> x.assignee, story_points |-> x.story_points]

\* the lengths of the pages the server may answer a request for batch issues
PageLengths(batch) ==
    IF batch <= MaxDetail
    THEN 0..(batch + MaxOver)
    ELSE {0, batch - 1} \cup (batch..(batch + MaxOver))

\* data.get("issues", []) of a page requested at offset at: up to MaxDetail
\* issues of any shapes, or a longer page of issues of one shape
Pages(at, batch) ==
    UNION { IF n <= MaxDetail
            THEN { [i \in 1..n |-> IssueAt(at + i - 1, f[i])] : f \in [1..n -> IssueShapes] }
            ELSE { [i \in 1..n |-> IssueAt(at + i - 1, x)] : x \in LongPageShapes }
          : n \in PageLengths(batch) }

(***************************************************************************)
(* The state of one JiraClient and of the operation it is running.         *)
(***************************************************************************)
VARIABLES
    environ,                    \* os.environ, after load_dotenv()
    self_config,                \* self.config, but for its story_points_field_id
    story_points_field_id,      \* self.config.story_points_field_id
    story_points_field_checked, \* self._story_points_field_checked
    discovery,                  \* history: how the last GET /field ended
    pc,                         \* where the running operation stands
    call,                       \* the operation called and its arguments
    http,                       \* the requests this operation has issued
    resp,                       \* the responses to them, in the same order
    scanned,                    \* history: every issue the scan has received
    raised,                     \* the exception the operation raised
    result,                     \* the value the operation returned
    users,                      \* _find_account_id_by_query: response.json()
    account_id,                 \* create_issue/assign_issue: the account found
    transitions,                \* transition_issue: the transitions fetched
    fields,                     \* _discover_story_points_field: the catalog read
    jql,                        \* story_points_by_jql: jql
    story_points_field,         \* the field id _ensure_... returned
    members,                    \* members.values(), in insertion order
    unassigned,
    total_issues,
    start_at,
    remaining

setup == <<environ, self_config>>
config == <<story_points_field_id, story_points_field_checked, discovery>>
io == <<http, resp>>
outcome == <<raised, result>>
lookups == <<users, account_id, transitions, fields>>
scan == <<members, unassigned, total_issues, start_at, remaining, scanned>>
vars == <<environ, self_config, story_points_field_id, story_points_field_checked, discovery, pc, call,
          http, resp, scanned, raised, result, users, account_id, transitions, fields, jql,
          story_points_field,
          members, unassigned, total_issues, start_at, remaining>>

NoExc == [type |-> "none", kind |-> "none", detail |-> <<>>, status |-> 0]
NoResult == [none |-> TRUE]

\* raise ValueError(...)
ValueError ==
    [type |-> "ValueError", kind |-> "ValidationError", detail |-> <<>>, status |-> 0]
\* raise RuntimeError(...), told apart by its message
RuntimeError(kind, detail) ==
    [type |-> "RuntimeError", kind |-> kind, detail |-> detail, status |-> 0]

\* a slip: the exception is caught and dropped
RaiseSwallowed(e) == pc' = "returned" /\ raised' = NoExc /\ result' = NoResult

Raise(e) == pc' = "raised" /\ raised' = e /\ result' = NoResult
Return(v) == pc' = "returned" /\ result' = v /\ raised' = NoExc
Goto(l) == pc' = l /\ raised' = NoExc /\ result' = NoResult

\* an operation can be called when none is running
Idle == pc = "idle"


(***************************************************************************)
(* _request: the exchange with the server.                                 *)
(***************************************************************************)
\* the statuses of the responses: a success, a 3xx that is not followed, a
\* client error and a server error
Statuses == {200, 304, 400, 500}

\* response.text of a response that is no success
ErrorTexts == {<<>>, <<"n", "o">>}

\* if response.status_code >= 400: raise RuntimeError(...)
Failed(r) == r.status >= ErrorStatus

\* a slip: the message without the status and the text
RequestFailedBare(r) ==
    [type |-> "RuntimeError", kind |-> "RequestFailed", detail |-> <<>>, status |-> 0]

\* f"Jira API request failed ({response.status_code}): {response.text}"
RequestFailed(r) ==
    [type |-> "RuntimeError", kind |-> "RequestFailed", detail |-> r.body, status |-> r.status]

\* the responses to a request whose 2xx body is drawn from bodies: a 3xx
\* has the JSON body {}, which reads as no entry; a 4xx or a 5xx has a text
Responses(bodies) ==
    { [status |-> st, body |-> b] : st \in {x \in Statuses : x \in 200..299}, b \in bodies }
    \cup { [status |-> st, body |-> <<>>] : st \in {x \in Statuses : x \in 300..399} }
    \cup { [status |-> st, body |-> b] : st \in {x \in Statuses : x \in 400..599}, b \in ErrorTexts }

\* the request is sent and answered; the log keeps the status of the
\* response, the number of entries of its body and, of a response that is
\* no success, its text
Exchange(req, r) ==
    /\ http' = Append(http, req)
    /\ resp' = Append(resp, [status |-> r.status, size |-> Len(r.body),
                             text |-> IF r.status \in 200..299 THEN <<>> ELSE r.body])
    /\ UNCHANGED setup

(***************************************************************************)
(* story_points_by_jql: the aggregation.                                   *)
(***************************************************************************)
NewRollup(id) ==
    [accountId |-> id, storyPoints |-> Zero, issueCount |-> 0,
     unestimatedCount |-> 0, issues |-> <<>>]

\* isinstance(story_points, (int, float))
has_estimate(story_points) == story_points.t = "num"

\* float(story_points) if has_estimate else 0.0
story_points_value(story_points) ==
    IF has_estimate(story_points) THEN ToFloat(story_points.n) ELSE Zero

issue_entry(issue) ==
    [key |-> issue.key,
     storyPoints |-> IF has_estimate(issue.story_points) THEN issue.story_points ELSE JNull]

\* a slip: the issue is counted only when it has an estimate
AddIssueCountsEstimated(r, issue) ==
    [r EXCEPT
       !.issueCount = IF has_estimate(issue.story_points) THEN @ + 1 ELSE @,
       !.storyPoints = IF has_estimate(issue.story_points)
                       THEN FloatAdd(@, story_points_value(issue.story_points))
                       ELSE @,
       !.unestimatedCount = IF has_estimate(issue.story_points) THEN @ ELSE @ + 1,
       !.issues = Append(@, issue_entry(issue))]

\* a slip: "=" for "+=" on the running sum
AddIssueOverwritesPoints(r, issue) ==
    [r EXCEPT
       !.issueCount = @ + 1,
       !.storyPoints = IF has_estimate(issue.story_points)
                       THEN story_points_value(issue.story_points)
                       ELSE @,
       !.unestimatedCount = IF has_estimate(issue.story_points) THEN @ ELSE @ + 1,
       !.issues = Append(@, issue_entry(issue))]

\* the bookkeeping of one issue on its rollup
AddIssue(r, issue) ==
    [r EXCEPT
       !.issueCount = @ + 1,
       !.storyPoints = IF has_estimate(issue.story_points)
                       THEN FloatAdd(@, story_points_value(issue.story_points))
                       ELSE @,
       !.unestimatedCount = IF has_estimate(issue.story_points) THEN @ ELSE @ + 1,
       !.issues = Append(@, issue_entry(issue))]

\* a slip: the account id of the assignee is not looked at
HasAssignee(issue) == issue.assignee.present

\* if assignee and assignee.get("accountId")
HasAccount(issue) == issue.assignee.present /\ Truthy(issue.assignee.accountId)

\* members.setdefault(account_id, {...}): the position of the member's entry
MemberIndex(ms, id) ==
    IF \E i \in 1..Len(ms) : ms[i].accountId = id
    THEN CHOOSE i \in 1..Len(ms) : ms[i].accountId = id
    ELSE Len(ms) + 1

\* one pass of "for issue in issues" on st = [members, unassigned]
ProcessIssue(st, issue) ==
    IF HasAccount(issue)
    THEN LET id == issue.assignee.accountId
             i  == MemberIndex(st.members, id)
             ms == IF i > Len(st.members)
                   THEN Append(st.members, NewRollup(id))
                   ELSE st.members
         IN  [st EXCEPT !.members = [ms EXCEPT ![i] = AddIssue(ms[i], issue)]]
    ELSE [st EXCEPT !.unassigned = AddIssue(st.unassigned, issue)]

RECURSIVE ProcessRange(_, _, _, _)
\* issues[lo..hi] booked in order.  The range is split in halves, and the
\* test on the first half has it evaluated before the second is begun, to
\* keep the evaluation shallow on pages of a hundred issues.
ProcessRange(st, issues, lo, hi) ==
    IF lo > hi THEN st
    ELSE IF lo = hi THEN ProcessIssue(st, issues[lo])
    ELSE LET mid == (lo + hi) \div 2
             first == ProcessRange(st, issues, lo, mid)
         IN  IF first.unassigned.issueCount >= 0
             THEN ProcessRange(first, issues, mid + 1, hi)
             ELSE first

\* for issue in issues: ...
ProcessIssues(st, issues) == ProcessRange(st, issues, 1, Len(issues))

\* a slip: an unstable sort, m goes before the entries it ties with
InsertMemberBeforeTies(s, m) ==
    LET k == Cardinality({i \in 1..Len(s) : Greater(s[i].storyPoints, m.storyPoints)})
    IN  SubSeq(s, 1, k) \o <<m>> \o SubSeq(s, k + 1, Len(s))

\* the place of m in the sorted list s: behind every entry that has at
\* least m's story points
InsertMember(s, m) ==
    LET k == Cardinality({i \in 1..Len(s) : ~Greater(m.storyPoints, s[i].storyPoints)})
    IN  SubSeq(s, 1, k) \o <<m>> \o SubSeq(s, k + 1, Len(s))

RECURSIVE SortMembers(_)
\* members_list.sort(key=lambda m: m["storyPoints"], reverse=True): stable
SortMembers(ms) ==
    IF ms = <<>> THEN <<>>
    ELSE InsertMember(SortMembers(SubSeq(ms, 1, Len(ms) - 1)), ms[Len(ms)])

\* a slip: the test on the point total alone
IncludeUnassignedByPoints(u) == u.storyPoints # Zero

\* if unassigned["issueCount"] or unassigned["storyPoints"]
IncludeUnassigned(u) == u.issueCount # 0 \/ u.storyPoints # Zero

\* the result dict of story_points_by_jql
JqlResult(q, total, ms, u) ==
    LET base == [jql |-> q, totalIssues |-> total, members |-> SortMembers(ms)]
    IN  IF IncludeUnassigned(u) THEN ("unassigned" :> u) @@ base ELSE base

\* a slip: the project is not echoed
SprintEchoWithoutProject(c, res) == ("sprint" :> Strip(c.sprint)) @@ res

\* story_points_by_sprint adds result["sprint"] and result["project"]
SprintEcho(c, res) ==
    LET withSprint == ("sprint" :> Strip(c.sprint)) @@ res
    IN  IF Truthy(c.project_key) THEN ("project" :> c.project_key) @@ withSprint
        ELSE withSprint

\* what the running operation returns once the scan is over
ScanResult(c, q, total, ms, u) ==
    IF c.op = "story_points_by_sprint"
    THEN SprintEcho(c, JqlResult(q, total, ms, u))
    ELSE JqlResult(q, total, ms, u)


(***************************************************************************)
(* _ensure_story_points_field_id and _discover_story_points_field.         *)
(***************************************************************************)
StoryPoint == <<"s", "t", "o", "r", "y", " ", "p", "o", "i", "n", "t">>

\* sub in s
Contains(s, sub) ==
    \E i \in 1..(Len(s) - Len(sub) + 1) : SubSeq(s, i, i + Len(sub) - 1) = sub

\* field.get("name") and "story point" in field["name"].lower()
IsCandidate(field) == Truthy(field.name) /\ Contains(Lower(field.name), StoryPoint)

\* a slip: candidates[-1] for candidates[0]
DiscoveredFieldIdLast(catalog, current) ==
    LET candidates == SelectSeq(catalog, IsCandidate)
    IN  IF candidates # <<>> /\ Truthy(candidates[Len(candidates)].id)
        THEN candidates[Len(candidates)].id
        ELSE current

\* the value of config.story_points_field_id after _discover_story_points_field
\* has read the catalog
DiscoveredFieldId(catalog, current) ==
    LET candidates == SelectSeq(catalog, IsCandidate)
    IN  IF candidates # <<>> /\ Truthy(candidates[1].id) THEN candidates[1].id
        ELSE current

\* "Unable to determine Story Points field id. ..."
FieldNotFound == RuntimeError("FieldNotFound", <<>>)

\* a slip: the flag is not consulted
MustDiscoverAlways(checked) == TRUE

\* if not self._story_points_field_checked
MustDiscover(checked) == ~checked

\* self._story_points_field_checked = True, once _discover_... has returned
CheckedAfterDiscovery == TRUE

\* the catalog of GET /rest/api/3/field
F1 == <<"f", "1">>
F2 == <<"f", "2">>
F3 == <<"f", "3">>
\* JIRA_STORY_POINTS_FIELD_ID, when configured
FC == <<"f", "c">>

CatalogFields ==
    { [id |-> F1,   name |-> <<"S", "t", "o", "r", "y", " ", "P", "o", "i", "n", "t", "s">>],
      [id |-> F2,   name |-> <<"s", "t", "o", "r", "y", " ", "p", "o", "i", "n", "t", " ", "e", "s", "t", "i", "m", "a", "t", "e">>],
      [id |-> F3,   name |-> <<"S", "u", "m", "m", "a", "r", "y">>],
      [id |-> None, name |-> <<"s", "t", "o", "r", "y", " ", "p", "o", "i", "n", "t", " ", "e", "s", "t", "i", "m", "a", "t", "e">>],
      [id |-> F3,   name |-> None] }

Catalogs == UNION { [1..n -> CatalogFields] : n \in 0..2 }

ScanIdle ==
    /\ scanned' = <<>>
    /\ members' = <<>>
    /\ unassigned' = NewRollup(None)
    /\ total_issues' = 0
    /\ start_at' = 0
    /\ remaining' = 0

\* lines 359-370: the locals of the scan, and the first test of the loop
StartScan(c, q) ==
    /\ scanned' = <<>>
    /\ members' = <<>>
    /\ unassigned' = NewRollup(None)
    /\ total_issues' = 0
    /\ start_at' = 0
    /\ remaining' = c.max_results
    /\ IF c.max_results > 0
       THEN Goto("search")
       ELSE Return(ScanResult(c, q, 0, <<>>, NewRollup(None)))

\* a slip: a hard-coded field id in place of the one resolved
WithFixedFieldId(c, q, fid) ==
    /\ story_points_field' = F3
    /\ IF c.op \in {"story_points_by_jql", "story_points_by_sprint"}
       THEN StartScan(c, q)
       ELSE /\ ScanIdle
            /\ Goto(IF c.op = "set_story_points" THEN "update_fields" ELSE "post_issue")

\* the operation c goes on with the field id fid
WithFieldId(c, q, fid) ==
    /\ story_points_field' = fid
    /\ IF c.op \in {"story_points_by_jql", "story_points_by_sprint"}
       THEN StartScan(c, q)
       ELSE /\ ScanIdle
            /\ Goto(IF c.op = "set_story_points" THEN "update_fields" ELSE "post_issue")

\* a slip: the configured id is not looked at
EnsureFieldIdDiscovers(c, q) ==
    /\ story_points_field' = None
    /\ ScanIdle
    /\ IF MustDiscover(story_points_field_checked)
       THEN Goto("discover")
       ELSE Raise(FieldNotFound)

\* _ensure_story_points_field_id, up to its request
EnsureFieldId(c, q) ==
    IF Truthy(story_points_field_id)
    THEN WithFieldId(c, q, story_points_field_id)
    ELSE /\ story_points_field' = None
         /\ ScanIdle
         /\ IF MustDiscover(story_points_field_checked)
            THEN Goto("discover")
            ELSE Raise(FieldNotFound)

\* _discover_story_points_field, lines 324-325: GET /rest/api/3/field
Discover ==
    /\ pc = "discover"
    /\ \E r \in Responses(Catalogs) :
        /\ Exchange([method |-> "GET", path |-> "/rest/api/3/field"], r)
        /\ UNCHANGED <<call, users, account_id, transitions, jql, story_points_field, scan,
                       story_points_field_id, story_points_field_checked>>
        /\ IF Failed(r)
           THEN /\ Raise(RequestFailed(r))
                /\ discovery' = "failed"
                /\ fields' = <<>>
           ELSE /\ Goto("candidates")
                /\ discovery' = "done"
                /\ fields' = r.body

\* _discover_story_points_field, lines 326-336, and the rest of
\* _ensure_story_points_field_id, lines 315-321
PickCandidate ==
    /\ pc = "candidates"
    /\ LET fid == DiscoveredFieldId(fields, story_points_field_id)
       IN  /\ story_points_field_id' = fid
           /\ story_points_field_checked' = CheckedAfterDiscovery
           /\ fields' = <<>>
           /\ UNCHANGED <<setup, discovery, call, io, users, account_id, transitions, jql>>
           /\ IF Truthy(fid)
              THEN WithFieldId(call, jql, fid)
              ELSE /\ Raise(FieldNotFound)
                   /\ UNCHANGED <<story_points_field, scan>>

(***************************************************************************)
(* The operations.  Each starts when no operation is running, empties the  *)
(* request log and runs up to its first request.                           *)
(***************************************************************************)
NoArgs ==
    [op |-> "none", issue_key |-> None, email |-> None, target_status |-> None,
     priority |-> None, story_points |-> None, jql |-> None, max_results |-> 0,
     sprint |-> None, project_key |-> None, assignee_email |-> None,
     description |-> None]

\* no user and no transitions looked up
NoLookups == users' = <<>> /\ account_id' = None /\ transitions' = <<>> /\ fields' = <<>>

\* a new call: nothing requested yet
Begin(c) == call' = c /\ http' = <<>> /\ resp' = <<>> /\ UNCHANGED <<setup, config>>

\* the arguments callers pass
Q == <<"p", "=", "X">>
JqlArgs == {None, <<>>, <<" ">>, Q}
\* max_results: none, small caps, and the caps of two and three pages
Caps == (-1..MaxDetail) \cup {150, 250}

\* story_points_by_jql(jql, max_results=cap), lines 354-370
story_points_by_jql ==
    /\ Idle
    /\ \E q \in JqlArgs, cap \in Caps :
        LET c == [NoArgs EXCEPT !.op = "story_points_by_jql", !.jql = q,
                                !.max_results = cap]
        IN  /\ Begin(c)
            /\ NoLookups
            /\ jql' = q
            /\ IF Blank(q)
               THEN Raise(ValueError) /\ story_points_field' = None /\ ScanIdle
               ELSE EnsureFieldId(c, q)

\* a slip: every page is asked at full length, whatever is left of the cap
BatchSizeFull(left) == PageLimit

\* batch_size = min(remaining, 100)
BatchSize(left) == Min(left, PageLimit)

\* if len(issues) < batch_size: break
ShortPage(n, batch_size) == n < batch_size

\* a slip: the offset advances by the size asked for
NextStartAtByRequest(at, n, batch_size) == at + batch_size

\* start_at += len(issues)
NextStartAt(at, n, batch_size) == at + n

\* a slip: the budget is not charged
NextRemainingKept(left, n, batch_size) == left

\* remaining -= len(issues)
NextRemaining(left, n, batch_size) == left - n

\* one pass of the while loop, lines 370-445: a page is requested, its
\* issues are booked, and the loop goes on or the result is returned
SearchPage ==
    /\ pc = "search"
    /\ LET batch_size == BatchSize(remaining)
           req == [method |-> "GET", path |-> "/rest/api/3/search/jql",
                   jql |-> jql, startAt |-> start_at, maxResults |-> batch_size,
                   fields |-> <<"summary", "assignee", story_points_field>>]
       IN  \E r \in Responses(Pages(start_at, batch_size)) :
            /\ Exchange(req, r)
            /\ UNCHANGED <<config, call, lookups, jql, story_points_field>>
            /\ IF Failed(r)
               THEN Raise(RequestFailed(r)) /\ UNCHANGED scan
               ELSE LET issues == r.body
                        st == ProcessIssues([members |-> members,
                                             unassigned |-> unassigned], issues)
                        total == total_issues + Len(issues)
                        more == ~ShortPage(Len(issues), batch_size)
                        left == IF more
                                THEN NextRemaining(remaining, Len(issues), batch_size)
                                ELSE remaining
                    IN  /\ scanned' = scanned \o issues
                        /\ total_issues' = total
                        /\ members' = st.members
                        /\ unassigned' = st.unassigned
                        /\ start_at' = IF more
                                       THEN NextStartAt(start_at, Len(issues), batch_size)
                                       ELSE start_at
                        /\ remaining' = left
                        /\ IF more /\ left > 0
                           THEN Goto("search")
                           ELSE Return(ScanResult(call, jql, total, st.members,
                                                  st.unassigned))

(***************************************************************************)
(* story_points_by_sprint.                                                 *)
(***************************************************************************)
StartsWith(s, prefix) ==
    Len(s) >= Len(prefix) /\ SubSeq(s, 1, Len(prefix)) = prefix

Digits == {"0", "1", "2", "3", "4", "5", "6", "7", "8", "9"}

\* str.isdigit()
IsDigit(s) == s # <<>> /\ \A i \in 1..Len(s) : s[i] \in Digits

\* a slip: the quotes are left as they are
EscapeQuotesNot(s) == s

RECURSIVE EscapeQuotes(_)
\* sprint.replace('"', '\\"')
EscapeQuotes(s) ==
    IF s = <<>> THEN <<>>
    ELSE (IF Head(s) = "\"" THEN <<"\\", "\"">> ELSE <<Head(s)>>) \o EscapeQuotes(Tail(s))

SprintEq == <<"s", "p", "r", "i", "n", "t", " ", "=">>
SprintIn == <<"s", "p", "r", "i", "n", "t", " ", "i", "n">>

\* lines 465-474, of the stripped identifier
SprintClause(sprint) ==
    IF StartsWith(Lower(sprint), SprintEq) \/ StartsWith(Lower(sprint), SprintIn)
    THEN sprint
    ELSE IF IsDigit(sprint)
    THEN SprintEq \o <<" ">> \o sprint
    ELSE SprintEq \o <<" ", "\"">> \o EscapeQuotes(sprint) \o <<"\"">>

\* lines 476-479
SprintJql(sprint, project_key) ==
    IF Truthy(project_key)
    THEN SprintClause(sprint) \o <<" ", "A", "N", "D", " ", "p", "r", "o", "j", "e", "c", "t", " ", "=", " ", "\"">> \o project_key \o <<"\"">>
    ELSE SprintClause(sprint)

SprintArgs ==
    { None, <<>>, <<" ">>, <<"4", "5">>, <<" ", "S", " ", "1", " ">>, <<"S", "p", "r", "i", "n", "t", " ", "I", "N", " ", "o", "(", ")">>, <<"Q", "\"", "3">>, <<"S", "P", "R", "I", "N", "T", " ", "=", "7">> }
ProjectArgs == {None, <<"P">>}
SprintCaps == {0, 1}

\* story_points_by_sprint(sprint, project_key, max_results), lines 462-481
story_points_by_sprint ==
    /\ Idle
    /\ \E sprint \in SprintArgs, project_key \in ProjectArgs, cap \in SprintCaps :
        LET c == [NoArgs EXCEPT !.op = "story_points_by_sprint", !.sprint = sprint,
                                !.project_key = project_key, !.max_results = cap]
        IN  /\ Begin(c)
            /\ NoLookups
            /\ IF Blank(sprint)
               THEN Raise(ValueError) /\ jql' = None /\ story_points_field' = None
                    /\ ScanIdle
               ELSE LET q == SprintJql(Strip(sprint), project_key)
                    IN  jql' = q /\ EnsureFieldId(c, q)

(***************************************************************************)
(* assign_issue, create_issue and _find_account_id_by_query.               *)
(***************************************************************************)
K1 == <<"K", "-", "1">>
E1 == <<"a", "@", "b">>
U1 == <<"u", "1">>
U2 == <<"u", "2">>

\* "Could not find a Jira user matching '...'."
UserNotFound == RuntimeError("UserNotFound", <<>>)

\* what a function without a return statement returns
ReturnsNone == [value |-> "None"]
\* response.json() of the last request
ReturnsJson == [value |-> "json"]

\* the entries of GET /rest/api/3/user/search: with an accountId or without
UserShapes == { [accountId |-> U1], [accountId |-> U2], [accountId |-> None] }
UserLists == UNION { [1..n -> UserShapes] : n \in 0..UserSearchLimit }

\* a slip: a test for the empty string where None is returned
AccountMissingEmptyOnly(account) == account = <<>>

\* if not account_id / if not target_account_id
AccountMissing(account) == ~Truthy(account)

\* a slip: users[-1] for users[0]
LastAccountId(us) == IF us = <<>> THEN None ELSE us[Len(us)].accountId

\* lines 304-307: the value _find_account_id_by_query returns
FirstAccountId(us) == IF us = <<>> THEN None ELSE us[1].accountId

EmailArgs == {None, <<>>, <<" ">>, E1}

\* assign_issue(issue_key, email=email), lines 222-225
assign_issue ==
    /\ Idle
    /\ \E email \in EmailArgs :
        LET c == [NoArgs EXCEPT !.op = "assign_issue", !.issue_key = K1,
                                !.email = email]
        IN  /\ Begin(c)
            /\ NoLookups
            /\ jql' = None
            /\ story_points_field' = None
            /\ ScanIdle
            /\ IF ~Truthy(email) THEN Raise(ValueError) ELSE Goto("find_account")

P5 == <<"5">>
High == <<"H", "i", "g", "h">>
Text == <<"F", "i", "x", " ", "b", "u", "g">>

\* create_issue(...), lines 176-195, up to its first request
create_issue ==
    /\ Idle
    /\ \E description \in {None, Text}, assignee_email \in {None, <<>>, E1},
          story_points \in {None, P5}, priority \in {None, High} :
        LET c == [NoArgs EXCEPT !.op = "create_issue", !.project_key = <<"P">>,
                                !.description = description,
                                !.assignee_email = assignee_email,
                                !.story_points = story_points,
                                !.priority = priority]
        IN  /\ Begin(c)
            /\ NoLookups
            /\ jql' = None
            /\ IF Truthy(assignee_email)
               THEN Goto("find_account") /\ story_points_field' = None /\ ScanIdle
               ELSE IF story_points # None
               THEN EnsureFieldId(c, None)
               ELSE Goto("post_issue") /\ story_points_field' = None /\ ScanIdle

\* _find_account_id_by_query and the test of its result, lines 186-195 and
\* 225-229
FindAccount ==
    /\ pc = "find_account"
    /\ LET query == IF call.op = "assign_issue" THEN call.email ELSE call.assignee_email
           req == [method |-> "GET", path |-> "/rest/api/3/user/search",
                   query |-> query, maxResults |-> UserSearchLimit]
       IN  \E r \in Responses(UserLists) :
            /\ Exchange(req, r)
            /\ UNCHANGED <<call, transitions, fields, jql>>
            /\ IF Failed(r)
               THEN /\ Raise(RequestFailed(r))
                    /\ UNCHANGED <<config, users, account_id, story_points_field, scan>>
               ELSE /\ users' = r.body
                    /\ account_id' = FirstAccountId(r.body)
                    /\ IF AccountMissing(FirstAccountId(r.body))
                       THEN /\ Raise(UserNotFound)
                            /\ UNCHANGED <<config, story_points_field, scan>>
                       ELSE IF call.op = "assign_issue"
                       THEN /\ Goto("put_assignee")
                            /\ UNCHANGED <<config, story_points_field, scan>>
                       ELSE IF call.story_points # None
                       THEN EnsureFieldId(call, None) /\ UNCHANGED config
                       ELSE /\ Goto("post_issue")
                            /\ UNCHANGED <<config, story_points_field, scan>>

\* the last request of an operation: it raises, or the operation returns v
LastRequest(req, v) ==
    \E r \in Responses({<<>>}) :
        /\ Exchange(req, r)
        /\ IF Failed(r) THEN Raise(RequestFailed(r)) ELSE Return(v)
        /\ UNCHANGED <<config, call, lookups, jql, story_points_field, scan>>

\* lines 231-235
PutAssignee ==
    /\ pc = "put_assignee"
    /\ LastRequest([method |-> "PUT", path |-> "/rest/api/3/issue/{}/assignee",
                    issue_key |-> call.issue_key, accountId |-> account_id],
                   ReturnsNone)

\* _make_adf_paragraph
make_adf_paragraph(text) ==
    [type |-> "doc", version |-> 1,
     content |-> <<[type |-> "paragraph",
                    content |-> <<[type |-> "text", text |-> text]>>]>>]

\* payload["fields"], lines 176-199
IssueFields(c, account, field_id) ==
    LET base == [project |-> c.project_key, summary |-> "summary", issuetype |-> "Task"]
        f1 == IF Truthy(c.description)
              THEN ("description" :> make_adf_paragraph(c.description)) @@ base ELSE base
        f2 == IF Truthy(c.assignee_email) THEN ("assignee" :> account) @@ f1 ELSE f1
        f3 == IF c.story_points # None
              THEN ("custom" :> [id |-> field_id, value |-> c.story_points]) @@ f2
              ELSE f2
    IN  IF Truthy(c.priority) THEN ("priority" :> c.priority) @@ f3 ELSE f3

\* lines 201-205
PostIssue ==
    /\ pc = "post_issue"
    /\ LastRequest([method |-> "POST", path |-> "/rest/api/3/issue",
                    fields |-> IssueFields(call, account_id, story_points_field)],
                   ReturnsJson)

(***************************************************************************)
(* set_story_points, set_priority and _update_issue_fields.                *)
(***************************************************************************)
\* set_story_points(issue_key, story_points), line 238
set_story_points ==
    /\ Idle
    /\ LET c == [NoArgs EXCEPT !.op = "set_story_points", !.issue_key = K1,
                               !.story_points = P5]
       IN  /\ Begin(c)
           /\ NoLookups
           /\ jql' = None
           /\ EnsureFieldId(c, None)

\* set_priority(issue_key, priority), lines 242-243
set_priority ==
    /\ Idle
    /\ \E priority \in {None, <<>>, High} :
        LET c == [NoArgs EXCEPT !.op = "set_priority", !.issue_key = K1,
                                !.priority = priority]
        IN  /\ Begin(c)
            /\ NoLookups
            /\ jql' = None
            /\ story_points_field' = None
            /\ ScanIdle
            /\ IF ~Truthy(priority) THEN Raise(ValueError) ELSE Goto("update_fields")

\* _update_issue_fields, lines 239, 244-247 and 339-343
UpdateFields ==
    /\ pc = "update_fields"
    /\ LastRequest([method |-> "PUT", path |-> "/rest/api/3/issue/{}",
                    issue_key |-> call.issue_key,
                    fields |-> IF call.op = "set_story_points"
                               THEN [id |-> story_points_field, value |-> call.story_points]
                               ELSE [id |-> <<"priority">>, value |-> call.priority]],
                   ReturnsNone)

(***************************************************************************)
(* transition_issue.                                                       *)
(***************************************************************************)
StatusDone == <<"D", "o", "n", "e">>
UpperDone == <<"D", "O", "N", "E">>
PaddedDone == <<" ", "D", "o", "n", "e">>
InProgress == <<"I", "n", " ", "P", "r", "o", "g", "r", "e", "s", "s">>
Unknown == <<"U", "n", "k", "n", "o", "w", "n">>
NoneText == <<"n", "o", "n", "e">>

\* the entries of GET .../transitions: an id and the name of the destination
\* status, None where the entry has no "to" or the status no "name"
TransitionShapes ==
    { [id |-> <<"2", "1">>, to |-> InProgress],
      [id |-> <<"3", "1">>, to |-> StatusDone],
      [id |-> <<"4", "1">>, to |-> UpperDone],
      [id |-> <<"5", "1">>, to |-> PaddedDone],
      [id |-> <<"6", "1">>, to |-> None] }

\* the longest list of transitions the server sends
MaxTransitions == 2

TransitionLists == UNION { [1..n -> TransitionShapes] : n \in 0..MaxTransitions }

\* (transition.get("to") or {}).get("name", "")
DestinationName(t) == IF t.to = None THEN <<>> ELSE t.to

\* (t.get("to") or {}).get("name", "Unknown")
ListedName(t) == IF t.to = None THEN Unknown ELSE t.to

\* name.lower() == target_status.strip().lower()
Matches(t, target_status) == Lower(DestinationName(t)) = Lower(Strip(target_status))

\* a slip: a loop without its break, the last match is chosen
ChosenLast(ts, target_status) ==
    IF \E i \in 1..Len(ts) : Matches(ts[i], target_status)
    THEN CHOOSE i \in 1..Len(ts) :
            /\ Matches(ts[i], target_status)
            /\ \A j \in (i + 1)..Len(ts) : ~Matches(ts[j], target_status)
    ELSE 0

\* lines 268-275: the index of the transition chosen, 0 if none is
Chosen(ts, target_status) ==
    IF \E i \in 1..Len(ts) : Matches(ts[i], target_status)
    THEN CHOOSE i \in 1..Len(ts) :
            /\ Matches(ts[i], target_status)
            /\ \A j \in 1..(i - 1) : ~Matches(ts[j], target_status)
    ELSE 0

RECURSIVE Join(_)
\* ", ".join(names)
Join(names) ==
    IF names = <<>> THEN <<>>
    ELSE IF Len(names) = 1 THEN names[1]
    ELSE names[1] \o <<",", " ">> \o Join(Tail(names))

\* lines 278-284: available or 'none'
Available(ts) ==
    LET available == Join([i \in 1..Len(ts) |-> ListedName(ts[i])])
    IN  IF available = <<>> THEN NoneText ELSE available

\* "Cannot transition ... Available: ...."
NoMatchingTransition(ts) == RuntimeError("NoMatchingTransition", Available(ts))

KeyArgs == {None, <<>>, <<" ">>, K1}
StatusArgs == {None, <<>>, <<" ">>, <<"d", "o", "n", "e">>, <<" ", "D", "o", "n", "e", " ">>, <<"B", "l", "o", "c", "k", "e", "d">>}

\* transition_issue(issue_key, target_status), lines 257-260
transition_issue ==
    /\ Idle
    /\ \E issue_key \in KeyArgs, target_status \in StatusArgs :
        LET c == [NoArgs EXCEPT !.op = "transition_issue", !.issue_key = issue_key,
                                !.target_status = target_status]
        IN  /\ Begin(c)
            /\ NoLookups
            /\ jql' = None
            /\ story_points_field' = None
            /\ ScanIdle
            /\ IF Blank(issue_key) \/ Blank(target_status)
               THEN Raise(ValueError)
               ELSE Goto("get_transitions")

\* lines 262-284: the transitions are fetched and one is chosen
GetTransitions ==
    /\ pc = "get_transitions"
    /\ \E r \in Responses(TransitionLists) :
        /\ Exchange([method |-> "GET", path |-> "/rest/api/3/issue/{}/transitions",
                     issue_key |-> call.issue_key], r)
        /\ UNCHANGED <<config, call, users, account_id, fields, jql, story_points_field, scan>>
        /\ IF Failed(r)
           THEN Raise(RequestFailed(r)) /\ UNCHANGED transitions
           ELSE /\ transitions' = r.body
                /\ IF Chosen(r.body, call.target_status) = 0
                   THEN Raise(NoMatchingTransition(r.body))
                   ELSE Goto("post_transition")

\* lines 286-292
PostTransition ==
    /\ pc = "post_transition"
    /\ LastRequest([method |-> "POST", path |-> "/rest/api/3/issue/{}/transitions",
                    issue_key |-> call.issue_key,
                    id |-> transitions[Chosen(transitions, call.target_status)].id],
                   ReturnsJson)

(***************************************************************************)
(* load_config, which JiraClient() calls, and the environment it reads.    *)
(***************************************************************************)
BaseUrl == <<" ", "u", "/", " ">>
Token == <<"t">>

\* the environments of the process: a variable is unset (None), empty,
\* blank, or has a value
Environments ==
    [JIRA_BASE_URL : {None, <<>>, <<" ">>, BaseUrl},
     JIRA_EMAIL : {None, <<>>, <<" ">>, E1},
     JIRA_API_TOKEN : {None, <<>>, <<" ">>, Token},
     JIRA_DEFAULT_PROJECT : {None},
     JIRA_STORY_POINTS_FIELD_ID : {None, FC}]

\* a slip: the value is not stripped
GetEnvUnstripped(value) == IF value = None THEN <<>> ELSE value

\* os.getenv(name, "").strip()
GetEnv(value) == IF value = None THEN <<>> ELSE Strip(value)

\* x or None
OrNone(x) == IF Truthy(x) THEN x ELSE None

RECURSIVE RStripSlash(_)
\* base_url.rstrip("/")
RStripSlash(s) ==
    IF s # <<>> /\ s[Len(s)] = "/" THEN RStripSlash(SubSeq(s, 1, Len(s) - 1)) ELSE s

\* the required variables, in the order of the dict "missing"
RequiredKeys == <<"JIRA_BASE_URL", "JIRA_EMAIL", "JIRA_API_TOKEN">>

\* [key for key, value in missing.items() if not value]
MissingKeys(env) ==
    LET Absent(key) == ~Truthy(GetEnv(env[key]))
    IN  SelectSeq(RequiredKeys, Absent)

\* raise JiraConfigError("Missing required environment variables: " + ...)
JiraConfigError(missing_keys) ==
    [type |-> "JiraConfigError", kind |-> "ConfigMissing", detail |-> missing_keys,
     status |-> 0]

NoConfig ==
    [base_url |-> None, email |-> None, api_token |-> None, default_project |-> None]

\* JiraClient(): self.config = load_config(), lines 31-68
load_config ==
    /\ pc = "start"
    /\ LET missing_keys == MissingKeys(environ)
       IN  IF missing_keys # <<>>
           THEN /\ pc' = "failed"
                /\ raised' = JiraConfigError(missing_keys)
                /\ UNCHANGED <<self_config, story_points_field_id>>
           ELSE /\ pc' = "idle"
                /\ raised' = NoExc
                /\ self_config' =
                      [base_url |-> RStripSlash(GetEnv(environ.JIRA_BASE_URL)),
                       email |-> GetEnv(environ.JIRA_EMAIL),
                       api_token |-> GetEnv(environ.JIRA_API_TOKEN),
                       default_project |-> OrNone(GetEnv(environ.JIRA_DEFAULT_PROJECT))]
                /\ story_points_field_id' =
                      OrNone(GetEnv(environ.JIRA_STORY_POINTS_FIELD_ID))
    /\ UNCHANGED <<environ, story_points_field_checked, discovery, call, io, result,
                   lookups, jql, story_points_field, scan>>

(***************************************************************************)
(* The process at its start, and its steps.                                *)
(***************************************************************************)
Init ==
    /\ environ \in Environments
    /\ self_config = NoConfig
    /\ story_points_field_id = None
    /\ story_points_field_checked = FALSE
    /\ discovery = "none"
    /\ pc = "start"
    /\ call = NoArgs
    /\ http = <<>>
    /\ resp = <<>>
    /\ scanned = <<>>
    /\ raised = NoExc
    /\ result = NoResult
    /\ users = <<>>
    /\ account_id = None
    /\ transitions = <<>>
    /\ fields = <<>>
    /\ jql = None
    /\ story_points_field = None
    /\ members = <<>>
    /\ unassigned = NewRollup(None)
    /\ total_issues = 0
    /\ start_at = 0
    /\ remaining = 0

\* the operation has returned or raised: its caller has the outcome, and
\* its locals are gone
Done ==
    /\ pc \in {"returned", "raised"}
    /\ pc' = "idle"
    /\ call' = NoArgs
    /\ http' = <<>>
    /\ resp' = <<>>
    /\ raised' = NoExc
    /\ result' = NoResult
    /\ NoLookups
    /\ jql' = None
    /\ story_points_field' = None
    /\ ScanIdle
    /\ UNCHANGED <<setup, config>>

Next ==
    \/ load_config
    \/ Done
    \/ assign_issue
    \/ create_issue
    \/ set_story_points
    \/ set_priority
    \/ story_points_by_jql
    \/ story_points_by_sprint
    \/ FindAccount
    \/ PutAssignee
    \/ PostIssue
    \/ UpdateFields
    \/ transition_issue
    \/ GetTransitions
    \/ PostTransition
    \/ Discover
    \/ PickCandidate
    \/ SearchPage

Spec == Init /\ [][Next]_vars

(***************************************************************************)
(* The aggregations of a client with a configured field id, each request   *)
(* of which returns: _request has a timeout of 15 seconds, after which it  *)
(* raises, so that a pass of the loop that is begun is ended.              *)
(***************************************************************************)
ScanInit ==
    /\ environ = [JIRA_BASE_URL |-> BaseUrl, JIRA_EMAIL |-> E1, JIRA_API_TOKEN |-> Token,
                  JIRA_DEFAULT_PROJECT |-> None, JIRA_STORY_POINTS_FIELD_ID |-> FC]
    /\ self_config = [base_url |-> <<"u">>, email |-> E1, api_token |-> Token,
                      default_project |-> None]
    /\ story_points_field_id = FC
    /\ story_points_field_checked = FALSE
    /\ discovery = "none"
    /\ pc = "idle"
    /\ call = NoArgs
    /\ http = <<>>
    /\ resp = <<>>
    /\ scanned = <<>>
    /\ raised = NoExc
    /\ result = NoResult
    /\ users = <<>>
    /\ account_id = None
    /\ transitions = <<>>
    /\ fields = <<>>
    /\ jql = None
    /\ story_points_field = None
    /\ members = <<>>
    /\ unassigned = NewRollup(None)
    /\ total_issues = 0
    /\ start_at = 0
    /\ remaining = 0

ScanNext ==
    \/ story_points_by_jql
    \/ SearchPage
    \/ Done

\* a pass of the loop: a request is sent and answered
PageRequested == pc = "search" /\ Len(http') = Len(http) + 1

\* weak fairness of the passes of the loop, which are enabled exactly where
\* pc = "search"
ScanSpec ==
    /\ ScanInit
    /\ [][ScanNext]_vars
    /\ ([]<>(pc # "search") \/ []<><<PageRequested>>_vars)


(***************************************************************************)
(* The properties of the client.                                           *)
(***************************************************************************)
SearchPath == "/rest/api/3/search/jql"

\* the running operation is an aggregation
Scanning == call.op \in {"story_points_by_jql", "story_points_by_sprint"}

\* the operation has returned the result dict of an aggregation
ScanReturned == pc = "returned" /\ Scanning

RECURSIVE SumIssueCounts(_)
SumIssueCounts(rs) ==
    IF rs = <<>> THEN 0 ELSE rs[1].issueCount + SumIssueCounts(Tail(rs))

\* the unassigned rollup of a result: absent, it has no issue and no points
UnassignedOf(res) ==
    IF "unassigned" \in DOMAIN res THEN res.unassigned ELSE NewRollup(None)

\* C1: whenever story_points_by_jql has processed a page, and in the result
\* it returns, the issue counts of the member rollups and of the unassigned
\* rollup add up to the number of issues scanned (totalIssues).
C1_IssueCountsAddUp ==
    /\ SumIssueCounts(members) + unassigned.issueCount = total_issues
    /\ total_issues = Len(scanned)
    /\ ScanReturned =>
          /\ result.totalIssues = Len(scanned)
          /\ SumIssueCounts(result.members) + UnassignedOf(result).issueCount
                = result.totalIssues

\* a result of two pages with a member, and unassigned issues, in it
C1_Witness ==
    /\ ScanReturned
    /\ Len(http) >= 2
    /\ Len(result.members) >= 1
    /\ "unassigned" \in DOMAIN result
    /\ result.unassigned.issueCount >= 1
    /\ result.totalIssues > PageLimit

RECURSIVE SumStoryPoints(_)
\* the exact sum of the story points of rollups
SumStoryPoints(rs) ==
    IF rs = <<>> THEN Zero ELSE ExactAdd(rs[1].storyPoints, SumStoryPoints(Tail(rs)))

\* an issue's story-point value if it is numeric, 0 otherwise
NumericValue(issue) ==
    IF issue.story_points.t = "num" THEN issue.story_points.n ELSE Zero

RECURSIVE SumValues(_, _, _)
\* the exact sum of the numeric values of issues[lo..hi]
SumValues(issues, lo, hi) ==
    IF lo > hi THEN Zero
    ELSE IF lo = hi THEN NumericValue(issues[lo])
    ELSE LET mid == (lo + hi) \div 2
             a == SumValues(issues, lo, mid)
             b == SumValues(issues, mid + 1, hi)
         IN  ExactAdd(a, b)

ScannedValue == SumValues(scanned, 1, Len(scanned))

\* the story points of the rollups of the result, added exactly
ResultPoints ==
    ExactAdd(SumStoryPoints(result.members), UnassignedOf(result).storyPoints)

\* C2, as stated: in every result the story points of the member rollups and
\* of the unassigned rollup add up to the sum, over the issues scanned, of
\* the numeric story-point values (strings and nulls counting 0).
C2_PointsAddUp == ScanReturned => ResultPoints = ScannedValue

\* C2, amended: the same, when the estimates are integers whose exact sum
\* stays below 2^53, so that every running float sum is exact.
C2_PointsAddUpBelow2p53 ==
    ScanReturned /\ ScannedValue.h = 0 => ResultPoints = ScannedValue

\* a result over a string, a null and numeric estimates on two rollups
C2_Witness ==
    /\ ScanReturned
    /\ ScannedValue.h = 0
    /\ \E i \in 1..Len(scanned) : scanned[i].story_points.t = "str"
    /\ \E i \in 1..Len(scanned) : scanned[i].story_points.t = "null"
    /\ \E i \in 1..Len(result.members) : result.members[i].storyPoints = Two
    /\ "unassigned" \in DOMAIN result


\* the places of the search requests in the log of the running operation
SearchRequests == {i \in 1..Len(http) : http[i].path = SearchPath}

RECURSIVE SumSizes(_)
SumSizes(is) ==
    IF is = {} THEN 0
    ELSE LET i == CHOOSE x \in is : TRUE IN resp[i].size + SumSizes(is \ {i})

\* the number of issues the pages before request i returned
ReturnedBefore(i) == SumSizes({j \in SearchRequests : j < i})

ReturnedInAll == SumSizes(SearchRequests)

\* the sizes of the pages returned so far, in order
PageSizes ==
    LET first == Len(http) - Cardinality(SearchRequests)
    IN  [k \in 1..Cardinality(SearchRequests) |-> resp[first + k].size]

\* C3: the search requests of an aggregation: the first has startAt 0, each
\* has startAt equal to the number of issues the earlier pages returned and
\* maxResults equal to min(100, cap minus that number); a request follows
\* only a page that was not short and left the cap unreached, and the loop
\* goes on until such a page.  Cap 150 with pages of 100 and 50: two
\* requests, at 0 and 100.  Cap 250 with full pages: three requests, the
\* third for 50.
C3_Pagination ==
    Scanning =>
      /\ \A i \in SearchRequests :
            /\ \A j \in SearchRequests : j <= i => j = i \/ j + 1 <= i
            /\ (\A j \in SearchRequests : j >= i) => http[i].startAt = 0
            /\ http[i].startAt = ReturnedBefore(i)
            /\ http[i].maxResults = Min(100, call.max_results - ReturnedBefore(i))
            /\ http[i].maxResults >= 1
            /\ \A j \in SearchRequests :
                  j < i => /\ resp[j].status < 400
                           /\ resp[j].size >= http[j].maxResults
                           /\ ReturnedBefore(i) < call.max_results
      /\ pc = "search" /\ SearchRequests # {} =>
            /\ resp[Len(resp)].size >= http[Len(http)].maxResults
            /\ ReturnedInAll < call.max_results
      /\ ScanReturned =>
            IF call.max_results <= 0 THEN SearchRequests = {}
            ELSE /\ SearchRequests # {}
                 /\ \/ resp[Len(resp)].size < http[Len(http)].maxResults
                    \/ ReturnedInAll >= call.max_results
      /\ ScanReturned /\ call.max_results = 150 /\ PageSizes = <<100, 50>> =>
            /\ http[Len(http) - 1].startAt = 0
            /\ http[Len(http)].startAt = 100
      /\ call.max_results = 150 /\ Len(PageSizes) >= 2 /\ SubSeq(PageSizes, 1, 2) = <<100, 50>> =>
            Len(PageSizes) = 2 /\ pc # "search"
      /\ call.max_results = 250 /\ Len(PageSizes) >= 3
            /\ SubSeq(PageSizes, 1, 2) = <<100, 100>> =>
            /\ Len(PageSizes) = 3
            /\ http[Len(http)].maxResults = 50
            /\ pc # "search"
      /\ ScanReturned /\ call.max_results = 250 /\ Len(PageSizes) >= 2
            /\ SubSeq(PageSizes, 1, 2) = <<100, 100>> => Len(PageSizes) = 3

\* cap 250: two full pages, and a third page longer than the 50 asked for
C3_Witness ==
    /\ ScanReturned
    /\ call.max_results = 250
    /\ Len(PageSizes) = 3
    /\ PageSizes[1] = 100 /\ PageSizes[2] = 100 /\ PageSizes[3] > 50
    /\ http[Len(http)].startAt = 200

\* cap 150: a page of 100, then a short page of 50
C3_WitnessShortPage ==
    ScanReturned /\ call.max_results = 150 /\ PageSizes = <<100, 50>>

RECURSIVE FirstIssueOf(_, _, _)
\* the place in scanned[lo..hi] of the first issue of the account id, or 0
FirstIssueOf(id, lo, hi) ==
    IF lo > hi THEN 0
    ELSE IF lo = hi
         THEN IF HasAccount(scanned[lo]) /\ scanned[lo].assignee.accountId = id
              THEN lo ELSE 0
    ELSE LET mid == (lo + hi) \div 2
             a == FirstIssueOf(id, lo, mid)
         IN  IF a # 0 THEN a ELSE FirstIssueOf(id, mid + 1, hi)

FirstSeen(id) == FirstIssueOf(id, 1, Len(scanned))

\* C4: the members of a result are in descending order of storyPoints, and
\* members with equal storyPoints are in the order in which the scan met
\* their first issue.
C4_MembersSorted ==
    ScanReturned =>
      \A i, j \in 1..Len(result.members) :
         i < j =>
           LET a == result.members[i]
               b == result.members[j]
           IN  /\ ~Greater(b.storyPoints, a.storyPoints)
               /\ FirstSeen(a.accountId) >= 1 /\ FirstSeen(b.accountId) >= 1
               /\ a.storyPoints = b.storyPoints =>
                     FirstSeen(a.accountId) < FirstSeen(b.accountId)

\* three members: the one met last leads, the two others tie and keep the
\* order in which they were met, against the order of their account ids
C4_Witness ==
    /\ ScanReturned
    /\ Len(result.members) = 3
    /\ Greater(result.members[1].storyPoints, result.members[2].storyPoints)
    /\ result.members[2].storyPoints = result.members[3].storyPoints
    /\ FirstSeen(result.members[1].accountId) > FirstSeen(result.members[3].accountId)
    /\ result.members[2].accountId = A3
    /\ result.members[3].accountId = A1


FieldPath == "/rest/api/3/field"

\* this step sends the request for the field catalog
CatalogRequestIssued ==
    /\ Len(http') = Len(http) + 1
    /\ http'[Len(http')].path = FieldPath

\* C5, as stated: once a client has attempted discovery, whatever the
\* attempt came to (a field found, none found, an HTTP error), no later step
\* of any operation on it requests the field catalog again.
C5_DiscoveryAttemptedOnce == [][discovery # "none" => ~CatalogRequestIssued]_vars

\* C5, amended: once the catalog request of an attempt has been answered
\* without an HTTP error, a field found or not, no later step requests the
\* catalog again; and a configured field id is never discovered.
C5_DiscoveryCompletedOnce ==
    [][(discovery = "done" \/ Truthy(story_points_field_id)) => ~CatalogRequestIssued]_vars

\* an operation fails at once with FieldNotFound, without a request, on a
\* client whose earlier discovery found no field
C5_Witness ==
    /\ discovery = "done"
    /\ story_points_field_checked
    /\ ~Truthy(story_points_field_id)
    /\ pc = "raised" /\ raised.kind = "FieldNotFound"
    /\ http = <<>>

TransitionsPath == "/rest/api/3/issue/{}/transitions"

\* transition_issue has received the list of transitions
TransitionsFetched ==
    /\ call.op = "transition_issue"
    /\ Len(resp) >= 1 /\ resp[1].status < 400

\* the name of the destination status of a transition, "" if it has none
NameOf(t) == IF t.to = None THEN <<>> ELSE t.to

\* equal, case-insensitively, both with surrounding whitespace trimmed
EqualTrimmed(name, target) == Lower(Strip(name)) = Lower(Strip(target))

\* equal, case-insensitively, to the target with its whitespace trimmed
EqualToTrimmedTarget(name, target) == Lower(name) = Lower(Strip(target))

\* the names a message lists, "Unknown" for a transition without one
ListedNames(ts) == [i \in 1..Len(ts) |-> IF ts[i].to = None THEN Unknown ELSE ts[i].to]

\* what transition_issue does with the list it fetched, Same(name, target)
\* being the comparison of a destination name with the target status
TransitionContract(Same(_, _)) ==
    TransitionsFetched =>
      LET ts == transitions
          hits == {i \in 1..Len(ts) : Same(NameOf(ts[i]), call.target_status)}
      IN  IF hits # {}
          THEN LET first == CHOOSE i \in hits : \A j \in hits : i <= j
               IN  /\ pc \in {"post_transition", "returned", "raised"}
                   /\ pc = "raised" => raised.kind = "RequestFailed" /\ Len(http) = 2
                   /\ pc = "returned" => Len(http) = 2
                   /\ Len(http) >= 2 =>
                         /\ Len(http) = 2
                         /\ http[2].method = "POST"
                         /\ http[2].path = TransitionsPath
                         /\ http[2].id = ts[first].id
          ELSE /\ pc = "raised"
               /\ raised.kind = "NoMatchingTransition"
               /\ Len(http) = 1
               /\ http[1].method = "GET"
               /\ ts = <<>> => raised.detail = NoneText
               /\ ts # <<>> /\ (\A i \in 1..Len(ts) : ts[i].to # None) =>
                     raised.detail = Join([i \in 1..Len(ts) |-> ts[i].to])

\* C6, as stated: the first transition, in the order of the response, whose
\* destination name equals the target status, case-insensitively and with
\* surrounding whitespace trimmed, is the one posted; without a match the
\* operation fails with NoMatchingTransition, its message listing the
\* destination names joined by ", " ("none" for an empty list), and no POST
\* is sent.
C6_FirstMatchTrimmed == TransitionContract(EqualTrimmed)

\* C6, amended: the same with the comparison the code makes: the target
\* status is trimmed and both sides are lower-cased, the destination name is
\* not trimmed; a transition without a destination name is listed as
\* "Unknown".
C6_FirstMatchTrimmedTarget ==
    /\ TransitionContract(EqualToTrimmedTarget)
    /\ TransitionsFetched /\ pc = "raised" /\ raised.kind = "NoMatchingTransition"
          /\ transitions # <<>> => raised.detail = Join(ListedNames(transitions))

\* two transitions lead to the target, which differ in case from it and the
\* target is padded: the first one was posted
C6_Witness ==
    /\ TransitionsFetched
    /\ pc = "returned"
    /\ call.target_status = <<" ", "D", "o", "n", "e", " ">>
    /\ Len(transitions) = 2
    /\ transitions[1].to = UpperDone /\ transitions[2].to = StatusDone
    /\ http[2].id = transitions[1].id

UserSearchPath == "/rest/api/3/user/search"

\* the operation has received the results of its user search
LookupAnswered ==
    /\ call.op \in {"assign_issue", "create_issue"}
    /\ Len(resp) >= 1 /\ resp[1].status < 400
    /\ http[1].path = UserSearchPath

UserNotFoundRaised == pc = "raised" /\ raised.kind = "UserNotFound"

\* the account ids the mutating requests of the operation carry
AssignedAccounts ==
    {http[i].accountId : i \in {j \in 1..Len(http) :
                                  http[j].path = "/rest/api/3/issue/{}/assignee"}}
    \cup {http[i].fields.assignee : i \in {j \in 1..Len(http) :
                                  http[j].path = "/rest/api/3/issue"}}

\* what the operations do with the results of the search, Resolves(us)
\* telling whether the results us name an account
ResolutionContract(Resolves(_)) ==
    /\ LookupAnswered /\ Resolves(users) =>
          /\ ~UserNotFoundRaised
          /\ AssignedAccounts \subseteq {users[1].accountId}
          /\ pc = "returned" => AssignedAccounts = {users[1].accountId}
    /\ UserNotFoundRaised <=> LookupAnswered /\ ~Resolves(users)

AnyResult(us) == us # <<>>

FirstHasAccount(us) == us # <<>> /\ us[1].accountId # None /\ us[1].accountId # <<>>

\* C7, as stated: with one result or more, the account id of the first
\* result is the one assigned and the operation does not fail with
\* UserNotFound; UserNotFound is raised exactly when there is no result.
C7_FirstResultUsed == ResolutionContract(AnyResult)

\* C7, amended: the same, a search resolving when its first result carries
\* an account id: UserNotFound is raised exactly when there is no result or
\* the first result has no account id.
C7_FirstAccountUsed == ResolutionContract(FirstHasAccount)

\* two results with different account ids, the first one was assigned
C7_Witness ==
    /\ LookupAnswered
    /\ pc = "returned"
    /\ Len(users) = 2
    /\ users[1].accountId = U2 /\ users[2].accountId = U1
    /\ AssignedAccounts = {U2}


\* the search found no account: no result, or a first result without one
NoMatch == LookupAnswered /\ (users = <<>> \/ ~Truthy(users[1].accountId))

\* C8: when the assignee lookup yields no match, assign_issue and
\* create_issue fail with UserNotFound, and the user search is the only
\* request of the operation: no PUT of the assignee, no POST of the issue, no
\* request for the field catalog.
C8_NoMatchNoMutation ==
    /\ NoMatch => UserNotFoundRaised
    /\ UserNotFoundRaised =>
          /\ call.op \in {"assign_issue", "create_issue"}
          /\ Len(http) = 1
          /\ http[1].method = "GET" /\ http[1].path = UserSearchPath
          /\ \A i \in 1..Len(http) :
                /\ http[i].method \notin {"PUT", "POST"}
                /\ http[i].path # FieldPath

\* create_issue with story points on a client without a field id, no user
\* found: neither the catalog nor the issue endpoint was called
C8_Witness ==
    /\ UserNotFoundRaised
    /\ call.op = "create_issue"
    /\ call.story_points # None
    /\ ~Truthy(story_points_field_id)
    /\ ~story_points_field_checked
    /\ users = <<>>

\* an argument that is empty: None or ""
Empty(s) == s = None \/ s = <<>>

\* an argument that is empty or blank: nothing but whitespace
EmptyOrBlank(s) == Empty(s) \/ \A i \in 1..Len(s) : s[i] \in Whitespace

\* the arguments of the call c fail its validation
InvalidCall(c) ==
    \/ c.op = "assign_issue" /\ Empty(c.email)
    \/ c.op = "set_priority" /\ Empty(c.priority)
    \/ c.op = "transition_issue"
          /\ (EmptyOrBlank(c.issue_key) \/ EmptyOrBlank(c.target_status))
    \/ c.op = "story_points_by_jql" /\ EmptyOrBlank(c.jql)
    \/ c.op = "story_points_by_sprint" /\ EmptyOrBlank(c.sprint)

ValidationErrorRaised == pc = "raised" /\ raised.kind = "ValidationError"

\* C9: a call of assign_issue with an empty email, of set_priority with an
\* empty priority, of transition_issue with an empty or blank issue key or
\* target status, of story_points_by_jql with an empty or blank JQL, of
\* story_points_by_sprint with an empty or blank sprint, fails with a
\* ValidationError in its first step, no request sent, the cached field id
\* and the discovery flag as they were.
C9_ValidationFirst ==
    [][/\ pc = "idle" /\ pc' # "idle" /\ InvalidCall(call') =>
            /\ pc' = "raised" /\ raised'.kind = "ValidationError"
            /\ http' = <<>>
            /\ story_points_field_id' = story_points_field_id
            /\ story_points_field_checked' = story_points_field_checked
       /\ ValidationErrorRaised =>
            /\ http = <<>>
            /\ pc' = "idle"
            /\ story_points_field_id' = story_points_field_id
            /\ story_points_field_checked' = story_points_field_checked]_vars

\* story_points_by_jql with a blank JQL on a client that has yet to discover
\* its field id
C9_Witness ==
    /\ ValidationErrorRaised
    /\ call.op = "story_points_by_jql"
    /\ call.jql = <<" ">>
    /\ ~Truthy(story_points_field_id)
    /\ ~story_points_field_checked
    /\ http = <<>>

\* the issue has no assignee with an account id
WithoutAccount(issue) ==
    \/ ~issue.assignee.present
    \/ issue.assignee.accountId = None
    \/ issue.assignee.accountId = <<>>

\* C10: the unassigned rollup has story points only when it has an issue,
\* and a result has the unassigned bucket if and only if an issue of the
\* scan went to it: a bucket with no issue is never included.
C10_UnassignedIffRouted ==
    /\ unassigned.storyPoints # Zero => unassigned.issueCount >= 1
    /\ unassigned.issueCount >= 1 <=>
          \E i \in 1..Len(scanned) : WithoutAccount(scanned[i])
    /\ ScanReturned =>
          /\ "unassigned" \in DOMAIN result <=>
                \E i \in 1..Len(scanned) : WithoutAccount(scanned[i])
          /\ "unassigned" \in DOMAIN result =>
                /\ result.unassigned = unassigned
                /\ result.unassigned.issueCount >= 1

\* a result with the unassigned bucket, which has issues and no points
C10_Witness ==
    /\ ScanReturned
    /\ "unassigned" \in DOMAIN result
    /\ result.unassigned.issueCount >= 1
    /\ result.unassigned.storyPoints = Zero
    /\ Len(result.members) >= 1


\* story_points_by_sprint has accepted its arguments
SprintAccepted ==
    /\ call.op = "story_points_by_sprint"
    /\ pc # "idle"
    /\ ~ValidationErrorRaised

\* the identifier starts with the prefix, whatever the case of its letters
HasPrefix(v, prefix) ==
    /\ Len(v) >= Len(prefix)
    /\ \A i \in 1..Len(prefix) : LowerChar(v[i]) = prefix[i]

OnlyDigits(v) == Len(v) >= 1 /\ \A i \in 1..Len(v) : v[i] \in Digits

RECURSIVE Flatten(_)
Flatten(parts) == IF parts = <<>> THEN <<>> ELSE Head(parts) \o Flatten(Tail(parts))

\* v with a backslash before each of its double quotes
Escaped(v) ==
    Flatten([i \in 1..Len(v) |-> IF v[i] = "\"" THEN <<"\\", "\"">> ELSE <<v[i]>>])

\* the clause of the identifier v
ClauseOf(v) ==
    IF HasPrefix(v, SprintEq) \/ HasPrefix(v, SprintIn) THEN v
    ELSE IF OnlyDigits(v) THEN <<"s", "p", "r", "i", "n", "t", " ", "=", " ">> \o v
    ELSE <<"s", "p", "r", "i", "n", "t", " ", "=", " ", "\"">> \o Escaped(v) \o <<"\"">>

AndProject ==
    <<" ", "A", "N", "D", " ", "p", "r", "o", "j", "e", "c", "t", " ", "=", " ", "\"">>

\* the JQL of the identifier v and the project scope, None if there is none
JqlOf(v, project) ==
    IF project = None THEN ClauseOf(v)
    ELSE ClauseOf(v) \o AndProject \o project \o <<"\"">>

\* the aggregation of story_points_by_sprint runs on the JQL q
SprintRunsOn(q) ==
    /\ jql = q
    /\ \A i \in SearchRequests : http[i].jql = q
    /\ pc = "returned" => result.jql = q

\* C11, as stated: the clause is synthesized from the identifier the caller
\* supplied: verbatim if it starts with "sprint =" or "sprint in" in any
\* case, "sprint = <value>" if it is made of digits only, else
\* "sprint = "<value>"" with each double quote escaped; the JQL is the
\* clause, followed by " AND project = "<project>"" when a project is given.
C11_ClauseOfIdentifier ==
    SprintAccepted => SprintRunsOn(JqlOf(call.sprint, call.project_key))

\* C11, amended: the same synthesis, applied to the identifier with its
\* surrounding whitespace trimmed.
C11_ClauseOfTrimmedIdentifier ==
    SprintAccepted => SprintRunsOn(JqlOf(Strip(call.sprint), call.project_key))

\* a name with a double quote, scoped to a project: the search carried the
\* quoted and escaped clause and the project
C11_Witness ==
    /\ SprintAccepted
    /\ pc = "returned"
    /\ call.sprint = <<"Q", "\"", "3">>
    /\ SearchRequests # {}
    /\ result.jql = <<"s", "p", "r", "i", "n", "t", " ", "=", " ", "\"", "Q", "\\", "\"", "3", "\"",
                      " ", "A", "N", "D", " ", "p", "r", "o", "j", "e", "c", "t", " ", "=", " ",
                      "\"", "P", "\"">>

\* the result without the keys story_points_by_sprint adds
CoreResult == [k \in DOMAIN result \ {"sprint", "project"} |-> result[k]]

\* the result of story_points_by_sprint: echo is the identifier echoed
SprintResultContract(echo) ==
    SprintAccepted /\ pc = "returned" =>
      /\ "sprint" \in DOMAIN result
      /\ result.sprint = echo
      /\ "project" \in DOMAIN result <=> call.project_key # None
      /\ "project" \in DOMAIN result => result.project = call.project_key
      /\ CoreResult = JqlResult(jql, total_issues, members, unassigned)

\* C12, as stated: the result echoes the sprint identifier exactly as the
\* caller supplied it, has "project" if and only if a project was supplied,
\* and is otherwise the result story_points_by_jql returns for the JQL.
C12_EchoAsSupplied == SprintResultContract(call.sprint)

\* C12, amended: the same, the identifier echoed being the one supplied with
\* its surrounding whitespace trimmed.
C12_EchoTrimmed == SprintResultContract(Strip(call.sprint))

\* a padded identifier and a project: both echoed, the sprint trimmed, next
\* to the aggregate of one page
C12_Witness ==
    /\ SprintAccepted
    /\ pc = "returned"
    /\ call.sprint = <<" ", "S", " ", "1", " ">>
    /\ result.sprint = <<"S", " ", "1">>
    /\ "project" \in DOMAIN result
    /\ result.totalIssues >= 1


\* this step sends a request and receives its response
Exchanged == Len(resp') = Len(resp) + 1 /\ Len(http') = Len(http) + 1

\* the response this step received
Received == resp'[Len(resp')]

RequestFailedRaised == pc = "raised" /\ raised.kind = "RequestFailed"

\* C13: a request of an operation that fails (status >= 400) makes the
\* operation raise at once: the step that receives the response ends it with
\* the error and no result, and the only step after it hands the error to
\* the caller: no request is sent again, no further page is fetched, no
\* partial aggregate is returned.
C13_ErrorsSurface ==
    [][/\ Exchanged /\ Received.status >= 400 =>
            /\ pc' = "raised"
            /\ raised'.kind = "RequestFailed"
            /\ result' = NoResult
       /\ RequestFailedRaised =>
            /\ resp[Len(resp)].status >= 400
            /\ \A i \in 1..(Len(resp) - 1) : resp[i].status < 400
            /\ result = NoResult
            /\ pc' = "idle" /\ http' = <<>> /\ result' = NoResult]_vars

\* the third page of an aggregation failed: the two pages booked are lost
C13_Witness ==
    /\ RequestFailedRaised
    /\ call.op = "story_points_by_jql"
    /\ Cardinality(SearchRequests) = 3
    /\ total_issues >= 200
    /\ members # <<>>
    /\ result = NoResult

\* the step treats the response it received as a failure of the request
TurnedIntoFailure ==
    /\ pc' = "raised"
    /\ raised'.kind = "RequestFailed"
    /\ raised'.status = Received.status
    /\ raised'.detail = Received.text

\* C14, as stated: a response is turned into RequestFailed, carrying its
\* status and its text, if and only if its status is not in the 2xx range.
C14_Non2xxFails ==
    [][Exchanged => (TurnedIntoFailure <=> Received.status \notin 200..299)]_vars

\* C14, amended: a response is turned into RequestFailed, carrying its
\* status and its text, if and only if its status is 400 or more; a response
\* with a status below 400, a 3xx that was not followed among them, is
\* handed to the operation as a success.
C14_From400Fails ==
    [][Exchanged =>
          /\ TurnedIntoFailure <=> Received.status >= 400
          /\ Received.status < 400 => ~(pc' = "raised" /\ raised'.kind = "RequestFailed")]_vars

\* a request failed with a client error and a text, which the error carries
C14_Witness ==
    /\ RequestFailedRaised
    /\ raised.status = 400
    /\ raised.detail = <<"n", "o">>
    /\ resp[Len(resp)].text = <<"n", "o">>

\* a 3xx was taken for a success: assign_issue returned after it
C14_WitnessRedirect ==
    /\ pc = "returned"
    /\ call.op = "assign_issue"
    /\ resp[Len(resp)].status = 304


\* the name of the field contains "story point", in any case
NamesStoryPoints(field) ==
    /\ field.name # None
    /\ \E i \in 1..Len(field.name) :
          /\ i + Len(StoryPoint) - 1 <= Len(field.name)
          /\ \A k \in 1..Len(StoryPoint) : LowerChar(field.name[i + k - 1]) = StoryPoint[k]

\* the places in the catalog of the fields that name story points
StoryPointFields(catalog) == {i \in 1..Len(catalog) : NamesStoryPoints(catalog[i])}

\* the running operation needs the story-points field id
NeedsFieldId ==
    \/ call.op \in {"set_story_points", "story_points_by_jql", "story_points_by_sprint"}
    \/ call.op = "create_issue" /\ call.story_points # None

FieldNotFoundRaised == pc = "raised" /\ raised.kind = "FieldNotFound"

\* the requests that update an issue, create one or search
WorkRequests ==
    {i \in 1..Len(http) : \/ http[i].method \in {"PUT", "POST"}
                          \/ http[i].path = SearchPath}

\* C15: on a client without a configured field id, discovery caches the id
\* of the first field of the catalog whose name contains "story point" in
\* any case; when the catalog has no such field nothing is cached, and
\* every operation that needs the id, then and later, fails with
\* FieldNotFound without an update, a create or a search request.
C15_FirstStoryPointField ==
    [][/\ pc = "candidates" =>
            LET hits == StoryPointFields(fields)
            IN  IF hits # {}
                THEN LET first == CHOOSE i \in hits : \A j \in hits : i <= j
                     IN  story_points_field_id' = fields[first].id
                ELSE /\ story_points_field_id' = story_points_field_id
                     /\ pc' = "raised" /\ raised'.kind = "FieldNotFound"
       /\ (NeedsFieldId /\ ~Truthy(story_points_field_id))' =>
            /\ pc' \in {"discover", "candidates", "find_account", "raised"}
            /\ WorkRequests' = {}
       /\ (NeedsFieldId /\ ~Truthy(story_points_field_id) /\ story_points_field_checked
             /\ pc = "raised")' =>
            raised'.kind \in {"FieldNotFound", "ValidationError", "UserNotFound",
                              "RequestFailed"}
       /\ pc = "idle" /\ story_points_field_checked /\ ~Truthy(story_points_field_id)
             /\ call'.op = "set_story_points" =>
            (FieldNotFoundRaised /\ http = <<>>)'
       /\ FieldNotFoundRaised' => (NeedsFieldId /\ WorkRequests = {})']_vars

\* set_story_points on a client whose catalog of two fields names no story
\* points: FieldNotFound, and the catalog request is the only one
C15_Witness ==
    /\ FieldNotFoundRaised
    /\ call.op = "set_story_points"
    /\ Len(http) = 1 /\ http[1].path = FieldPath
    /\ resp[1].status = 200 /\ resp[1].size = 2
    /\ story_points_field_checked
    /\ story_points_field_id = None

\* the id of a second field was cached, the first field naming no story
\* points; the search asks for it
C15_WitnessCached ==
    /\ story_points_field_id = F2
    /\ pc = "returned"
    /\ Len(http) = 2 /\ http[1].path = FieldPath /\ http[2].path = SearchPath
    /\ http[2].fields[3] = F2


\* the variable is absent, empty or nothing but whitespace
Unset(value) ==
    value = None \/ \A i \in 1..Len(value) : value[i] \in Whitespace

\* the required variables the environment lacks
UnsetKeys == {k \in {"JIRA_BASE_URL", "JIRA_EMAIL", "JIRA_API_TOKEN"} : Unset(environ[k])}

ConfigMissingRaised == pc = "failed" /\ raised.kind = "ConfigMissing"

\* C16: load_config fails with ConfigMissing if and only if the base URL,
\* the email or the API token is absent, empty or blank; the error names
\* every missing key, once, and no other; with none missing it returns a
\* configuration.
C16_MissingKeysNamed ==
    pc # "start" =>
      /\ ConfigMissingRaised <=> UnsetKeys # {}
      /\ ConfigMissingRaised =>
            /\ {raised.detail[i] : i \in 1..Len(raised.detail)} = UnsetKeys
            /\ Len(raised.detail) = Cardinality(UnsetKeys)
            /\ self_config = NoConfig
      /\ UnsetKeys = {} =>
            /\ pc # "failed"
            /\ self_config.email = E1 /\ self_config.api_token = Token
            /\ self_config.base_url = <<"u">>
            /\ discovery = "none" =>
                  story_points_field_id = environ.JIRA_STORY_POINTS_FIELD_ID

\* a blank base URL and no token, the email set: the two are named
C16_Witness ==
    /\ ConfigMissingRaised
    /\ environ.JIRA_BASE_URL = <<" ">>
    /\ environ.JIRA_EMAIL = E1
    /\ environ.JIRA_API_TOKEN = None
    /\ raised.detail = <<"JIRA_BASE_URL", "JIRA_API_TOKEN">>


\* the field ids the requests of the running operation carry: in the field
\* list of a search, in the payload of an update or of a create
FieldIdsUsed ==
    {http[i].fields[3] : i \in SearchRequests}
    \cup {http[i].fields.id :
            i \in {j \in 1..Len(http) : /\ http[j].path = "/rest/api/3/issue/{}"
                                        /\ call.op = "set_story_points"}}
    \cup {http[i].fields.custom.id :
            i \in {j \in 1..Len(http) : /\ http[j].path = "/rest/api/3/issue"
                                        /\ "custom" \in DOMAIN http[j].fields}}

\* C17: the cached field id is written at most once: once it holds a
\* non-empty value no step of any later operation changes it, and every
\* request that carries a field id carries that value.
C17_FieldIdWrittenOnce ==
    [][/\ Truthy(story_points_field_id) => story_points_field_id' = story_points_field_id
       /\ story_points_field_id' # story_points_field_id =>
            /\ ~Truthy(story_points_field_id)
            /\ pc \in {"start", "candidates"}
       /\ FieldIdsUsed' \subseteq {story_points_field_id'}
       /\ (NeedsFieldId /\ pc = "returned")' => FieldIdsUsed' = {story_points_field_id'}
                                                 \/ call'.max_results <= 0]_vars

\* an earlier operation discovered the id; this one searched with it and
\* sent no catalog request
C17_Witness ==
    /\ discovery = "done"
    /\ story_points_field_id = F1
    /\ pc = "returned"
    /\ call.op = "story_points_by_jql"
    /\ Len(http) = 1 /\ http[1].path = SearchPath
    /\ http[1].fields[3] = F1

\* the process has a client, and its environment sets the field id
FieldIdConfigured ==
    /\ pc \notin {"start", "failed"}
    /\ environ.JIRA_STORY_POINTS_FIELD_ID # None
    /\ ~Unset(environ.JIRA_STORY_POINTS_FIELD_ID)

\* C18: with a field id in the configuration, discovery is skipped: no
\* request for the field catalog is ever sent, the discovery flag stays
\* unset and the id stays the configured one, which is the id the searches,
\* the updates and the creates carry.
C18_ConfiguredIdSkipsDiscovery ==
    FieldIdConfigured =>
      /\ story_points_field_id = environ.JIRA_STORY_POINTS_FIELD_ID
      /\ ~story_points_field_checked
      /\ discovery = "none"
      /\ pc \notin {"discover", "candidates"}
      /\ \A i \in 1..Len(http) : http[i].path # FieldPath
      /\ FieldIdsUsed \subseteq {environ.JIRA_STORY_POINTS_FIELD_ID}
      /\ ~FieldNotFoundRaised
      /\ NeedsFieldId /\ pc = "returned" /\ call.max_results > 0 =>
            FieldIdsUsed = {environ.JIRA_STORY_POINTS_FIELD_ID}

\* create_issue with story points on a configured client: one request, the
\* create, with the configured id in its payload
C18_Witness ==
    /\ FieldIdConfigured
    /\ call.op = "create_issue"
    /\ pc = "returned"
    /\ call.story_points # None
    /\ Len(http) = 1
    /\ http[1].fields.custom.id = FC


\* the rollup is the bookkeeping of the issues of the scan that Mine picks:
\* they are its issue list, in the order of the scan, each echoed with its
\* estimate if that is a number and with null otherwise, and its counts are
\* those of the list
BooksIssues(rollup, Mine(_)) ==
    LET mine == SelectSeq(scanned, Mine)
        NoEstimate(entry) == entry.storyPoints = JNull
    IN  /\ Len(rollup.issues) = Len(mine)
        /\ \A i \in 1..Len(mine) :
              /\ rollup.issues[i].key = mine[i].key
              /\ rollup.issues[i].storyPoints =
                    IF mine[i].story_points.t = "num" THEN mine[i].story_points ELSE JNull
        /\ rollup.issueCount = Len(rollup.issues)
        /\ rollup.unestimatedCount = Len(SelectSeq(rollup.issues, NoEstimate))
        /\ rollup.unestimatedCount <= rollup.issueCount

\* C19: in every state of the aggregation each issue scanned is, in scan
\* order, in the issue list of exactly one rollup: the member rollup of its
\* assignee's account id if it has one, the unassigned rollup otherwise; and
\* each rollup has issueCount equal to the length of its list,
\* unestimatedCount equal to the number of its issues without a numeric
\* estimate, echoed with null, and unestimatedCount <= issueCount.
C19_RollupBookkeeping ==
    /\ BooksIssues(unassigned, WithoutAccount)
    /\ \A m \in 1..Len(members) :
          LET OfMember(issue) ==
                ~WithoutAccount(issue) /\ issue.assignee.accountId = members[m].accountId
          IN  /\ members[m].accountId # None /\ members[m].accountId # <<>>
              /\ members[m].issueCount >= 1
              /\ BooksIssues(members[m], OfMember)
              /\ \A n \in 1..Len(members) :
                    members[n].accountId = members[m].accountId => n = m
    /\ \A i \in 1..Len(scanned) :
          WithoutAccount(scanned[i])
          \/ \E m \in 1..Len(members) : members[m].accountId = scanned[i].assignee.accountId

\* two pages: a member with estimated issues, and issues whose assignee has
\* no account id, without estimate, in the unassigned rollup
C19_Witness ==
    /\ Scanning
    /\ Len(scanned) > PageLimit
    /\ Len(members) >= 1
    /\ members[1].issueCount >= 1 /\ members[1].unestimatedCount = 0
    /\ unassigned.issueCount >= 1
    /\ unassigned.unestimatedCount = unassigned.issueCount

\* one page: an issue whose assignee has no account id is in the unassigned
\* rollup, next to a member whose only issue has no estimate
C19_WitnessAnonymous ==
    /\ Scanning
    /\ \E i \in 1..Len(scanned) :
          scanned[i].assignee.present /\ scanned[i].assignee.accountId = None
    /\ \E m \in 1..Len(members) : members[m].unestimatedCount = 1
    /\ unassigned.issueCount >= 1


\* ceil(cap / 100)
MostRequests(cap) == IF cap <= 0 THEN 0 ELSE (cap + 99) \div 100

\* C20: the pagination loop terminates whatever the cap and the pages: a
\* pass either ends the loop or leaves a smaller, still positive, budget;
\* at most ceil(cap/100) search requests are sent, none for a cap of 0 or
\* less, whose result has totalIssues 0 and no member; and a loop that has
\* begun ends with a result or an error.
C20_PaginationTerminates ==
    /\ [][pc = "search" /\ pc' = "search" =>
             /\ remaining' < remaining
             /\ remaining' >= 1
             /\ Len(http') = Len(http) + 1]_vars
    /\ [](Scanning =>
             /\ Cardinality(SearchRequests) <= MostRequests(call.max_results)
             /\ pc = "search" => remaining >= 1 /\ remaining <= call.max_results
             /\ call.max_results <= 0 /\ ~ValidationErrorRaised /\ pc = "returned" =>
                   /\ SearchRequests = {}
                   /\ result.totalIssues = 0
                   /\ result.members = <<>>)
    /\ (pc = "search" ~> pc \in {"returned", "raised"})

\* a cap of 250 used up by three requests, the last page as long as asked
C20_Witness ==
    /\ ScanReturned
    /\ call.max_results = 250
    /\ PageSizes = <<100, 100, 50>>
    /\ Cardinality(SearchRequests) = MostRequests(250)
    /\ remaining = 0

\* a negative cap: a result without a request
C20_WitnessNoBudget ==
    /\ ScanReturned
    /\ call.max_results < 0
    /\ http = <<>>
    /\ result.totalIssues = 0 /\ result.members = <<>>


Max(a, b) == IF a > b THEN a ELSE b

\* no page received is longer than the maxResults of its request
PagesWithinRequest ==
    \A i \in SearchRequests : resp[i].size <= http[i].maxResults

\* C21, as stated: provided no page is longer than asked for, totalIssues
\* of the result never exceeds max_results, and it equals the sum of the
\* lengths of the pages received.
C21_CapBoundsScan ==
    ScanReturned /\ PagesWithinRequest =>
        /\ result.totalIssues <= call.max_results
        /\ result.totalIssues = ReturnedInAll

\* C21, amended: provided no page is longer than asked for, totalIssues of
\* the result never exceeds max_results, or 0 when max_results is negative
\* (the loop is skipped and totalIssues is 0, which is above the cap); and
\* totalIssues equals the sum of the lengths of the pages received, the
\* running total doing so after every page.
C21_CapOrZeroBoundsScan ==
    /\ Scanning /\ pc \in {"search", "returned"} /\ ~ValidationErrorRaised =>
          total_issues = ReturnedInAll
    /\ ScanReturned /\ PagesWithinRequest =>
          /\ result.totalIssues <= Max(call.max_results, 0)
          /\ result.totalIssues = ReturnedInAll
          /\ call.max_results < 0 => result.totalIssues > call.max_results

\* a cap of 250 met exactly by pages of 100, 100 and 50
C21_Witness ==
    /\ ScanReturned
    /\ PagesWithinRequest
    /\ call.max_results = 250
    /\ PageSizes = <<100, 100, 50>>
    /\ result.totalIssues = 250

\* a small cap met by one page of issues scanned one by one
C21_WitnessSmallCap ==
    /\ ScanReturned
    /\ PagesWithinRequest
    /\ call.max_results = 2
    /\ Len(scanned) = 2
    /\ result.totalIssues = 2

\* a page longer than asked for takes totalIssues over the cap
C21_WitnessOverLength ==
    /\ ScanReturned
    /\ ~PagesWithinRequest
    /\ result.totalIssues > call.max_results
    /\ call.max_results > 0
    /\ result.totalIssues = ReturnedInAll

=============================================================================

